---- MODULE Spec2Model ----
(***************************************************************************)
(* Model of the Stagehand MCP server: the call-tool handler of             *)
(* createServer (server.ts), ensureStagehand (server.ts), handleToolCall   *)
(* (tools.ts) and the static artifact server (httpStaticServer.ts).        *)
(*                                                                         *)
(* Every `await` of the source is a suspension point: a call is a process  *)
(* whose pc names the promise it waits on, and one action is the           *)
(* synchronous code that runs between two suspension points.               *)
(*                                                                         *)
(* Strings are sequences of symbols; template strings are tuples of their  *)
(* parts.  Rejections of the automation library are Error objects, of      *)
(* which the model keeps the message.                                      *)
(***************************************************************************)
EXTENDS Integers, Sequences, FiniteSets, TLC

\* ------------------------------------------------------------------ bounds
MaxCalls == 2
MaxTime == 1
MaxDepth == 3
MaxEntries == 2
MaxLines == 2

Calls == 1..MaxCalls

\* ------------------------------------------------------- values of the code
Undefined == "undefined"
NoHandle == 0

\* tools.ts 12-101: the names of the Tool Registry
ToolNames ==
    { "stagehand_navigate", "stagehand_act", "stagehand_extract",
      "stagehand_observe", "stagehand_get_html", "screenshot" }

TOOLS == ToolNames

\* request.params.name as the transport delivers it: a registered name, a
\* name that is not registered, or no name at all.
RequestNames == ToolNames \cup { "no_such_tool", Undefined }

Truthy(v) == v # Undefined

\* server.ts 48-105 (the OpenAI branch of the model configuration)
MakeConfig(apiKey, projectId, cdpUrl, openaiKey) ==
    [ env |-> IF Truthy(apiKey) /\ Truthy(projectId) THEN "BROWSERBASE" ELSE "LOCAL",
      apiKey |-> apiKey,
      projectId |-> projectId,
      cdpUrl |-> cdpUrl,
      modelApiKey |-> openaiKey ]

\* the environments the process is started in: BROWSERBASE_API_KEY,
\* BROWSERBASE_PROJECT_ID, LOCAL_CDP_URL, OPENAI_API_KEY
Environments ==
    { << "bb-key-1", "proj", Undefined, "sk-1" >>,
      << "bb-key-2", "proj", Undefined, "sk-2" >>,
      << Undefined, Undefined, "ws://cdp", "sk-1" >>,
      << Undefined, Undefined, Undefined, "sk-1" >>,
      << "bb-key-1", Undefined, Undefined, "sk-1" >>,
      << "bb-key-2", Undefined, Undefined, "sk-2" >> }

Configs == { MakeConfig(e[1], e[2], e[3], e[4]) : e \in Environments }

\* JSON.stringify(stagehandConfig, null, 2): the defined properties, in
\* declaration order, each with its value; undefined ones are left out.
ConfigKeys == << "env", "apiKey", "projectId", "cdpUrl", "modelApiKey" >>

RECURSIVE StringifyFrom(_, _)
StringifyFrom(cfg, i) ==
    IF i > Len(ConfigKeys) THEN << >>
    ELSE LET k == ConfigKeys[i]
         IN  (IF Truthy(cfg[k]) THEN << << k, cfg[k] >> >> ELSE << >>)
             \o StringifyFrom(cfg, i + 1)

JSONstringify(cfg) == StringifyFrom(cfg, 1)

\* ------------------------------------------------------------------ errors
MsgClosed == << "page.evaluate: ", "Target page, context or browser has been closed" >>
MsgExpired == << "Session expired" >>
MsgDestroyed == << "Execution ", "context destroyed" >>
MsgTimeout == << "Timeout 30000ms exceeded" >>
MsgNotInit == << "Stagehand not initialized" >>
MsgNoCdp == << "Using a local browser without providing a CDP URL is not supported." >>
MsgEnospc == << "ENOSPC: no space left on device" >>

Err(m) == [ message |-> m ]

\* what the liveness probe, init() and the page operations can reject with
ProbeErrors == { Err(MsgClosed), Err(MsgExpired), Err(MsgDestroyed), Err(MsgTimeout) }
InitErrors == { Err(MsgTimeout) }
OpErrors == { Err(MsgTimeout), Err(MsgClosed) }
WriteErrors == { Err(MsgEnospc) }
NoError == Err(<< >>)

\* String.prototype.includes on the message
Includes(msg, part) == \E i \in 1..Len(msg) : msg[i] = part

IsSessionInvalidAlways(error) == TRUE

IsSessionInvalidNever(error) == FALSE

\* server.ts 134-141
IsSessionInvalid(error) ==
    \/ Includes(error.message, "Target page, context or browser has been closed")
    \/ Includes(error.message, "Session expired")
    \/ Includes(error.message, "context destroyed")

ConfigCheckRemoved(cfg) == FALSE

\* server.ts 112-115
LocalWithoutCdp(cfg) == cfg.env = "LOCAL" /\ ~Truthy(cfg.cdpUrl)

\* --------------------------------------------------------------- envelopes
Text(parts) == [ type |-> "text", text |-> parts ]

Image(data) == [ type |-> "image", data |-> data, mimeType |-> "image/png" ]

\* `Operation logs:\n${operationLogs.join("\n")}`
LogsItem(logs) == Text(<< "Operation logs:\n", logs >>)

\* server.ts 241-247: the object the outer catch of the handler returns
InternalError(errorMsg) ==
    [ error |-> [ code |-> -32603, message |-> << "Internal error: ", errorMsg >> ] ]

\* server.ts 204
InvalidToolName(name) == << "Invalid tool name: ", name >>

\* server.ts 211-228
EnsureFailure(error, cfg, logs) ==
    [ content |-> << Text(<< "Failed to initialize Stagehand: ", error.message,
                            ".\n\nConfig: ", JSONstringify(cfg) >>),
                     LogsItem(logs) >>,
      isError |-> TRUE ]

FailurePrefix(name) ==
    CASE name = "stagehand_navigate" -> "Failed to navigate: "
      [] name = "stagehand_act" -> "Failed to perform action: "
      [] name = "stagehand_extract" -> "Failed to extract content: "
      [] name = "stagehand_observe" -> "Failed to observe: "
      [] name = "stagehand_get_html" -> "Failed to get HTML: "
      [] name = "screenshot" -> "Failed to take screenshot: "

ToolFailureRethrown(name, error, logs) == InternalError(error.message)

ToolFailureWithImage(name, error, logs) ==
    [ content |-> << Text(<< FailurePrefix(name), error.message >>),
                     Image(<< "png" >>), LogsItem(logs) >>,
      isError |-> TRUE ]

\* the catch block of each case of handleToolCall
ToolFailure(name, error, logs) ==
    IF name = "stagehand_extract"
    THEN [ content |-> << Text(<< FailurePrefix(name), error.message >>) >>,
           isError |-> TRUE ]
    ELSE [ content |-> << Text(<< FailurePrefix(name), error.message >>),
                          LogsItem(logs) >>,
           isError |-> TRUE ]

\* tools.ts 448-461
UnknownTool(name, logs) ==
    [ content |-> << Text(<< "Unknown tool: ", name >>), LogsItem(logs) >>,
      isError |-> TRUE ]

NoResponse == [ pending |-> TRUE ]

\* the success return of each case of handleToolCall that needs no further
\* work after the awaited operation (navigate, act, extract, observe);
\* `value` is the session url, the cleaned text or the observations
ToolSuccess(name, value) ==
    CASE name = "stagehand_navigate" ->
           [ content |-> << Text(<< "Navigated to: ", "args.url" >>),
                            Text(<< "View the live session here: ", value >>) >>,
             isError |-> FALSE ]
      [] name = "stagehand_act" ->
           [ content |-> << Text(<< "Action performed: ", "args.action" >>) >>,
             isError |-> FALSE ]
      [] name = "stagehand_extract" ->
           [ content |-> << Text(<< "Extracted content:\n", value >>) >>,
             isError |-> FALSE ]
      [] name = "stagehand_observe" ->
           [ content |-> << Text(<< "Observations: ", value >>) >>,
             isError |-> FALSE ]

\* ------------------------------------------------------------ file system
\* A path is a string: a sequence of symbols, "/" being the separator.

\* path.resolve(__dirname, "../tmp"): the ArtifactDirectory, without a
\* trailing separator
TMP_DIR == << "/", "srv", "/", "tmp" >>

\* files the process can read that are not artifacts: one hidden file in the
\* directory (startup keeps it), and files beside and above the directory
InitialFiles ==
    ( << "/", "srv", "/", "tmp", "/", ".", "keep" >> :> "keep" ) @@
    ( << "/", "srv", "/", "tmp", "2", "/", "a" >> :> "sibling" ) @@
    ( << "/", "srv", "/", "a" >> :> "parent" ) @@
    ( << "/", "a" >> :> "root" )

\* String.prototype.startsWith
StartsWith(str, prefix) ==
    /\ Len(str) >= Len(prefix)
    /\ SubSeq(str, 1, Len(prefix)) = prefix

\* String.prototype.replace with a string pattern: the first occurrence only
RECURSIVE ReplaceFirst(_, _, _)
ReplaceFirst(str, pattern, replacement) ==
    IF Len(str) < Len(pattern) THEN str
    ELSE IF StartsWith(str, pattern)
    THEN replacement \o SubSeq(str, Len(pattern) + 1, Len(str))
    ELSE << Head(str) >> \o ReplaceFirst(Tail(str), pattern, replacement)

\* the segments of a path, separators removed: "/a//b" gives "", "a", "", "b"
RECURSIVE SplitFrom(_, _, _)
SplitFrom(str, i, current) ==
    IF i > Len(str) THEN << current >>
    ELSE IF str[i] = "/"
    THEN << current >> \o SplitFrom(str, i + 1, << >>)
    ELSE SplitFrom(str, i + 1, Append(current, str[i]))

Split(str) == SplitFrom(str, 1, << >>)

DotDot == << ".", "." >>

Dot == << "." >>

\* path.normalize on the segments of an absolute path: "" and "." are
\* dropped, ".." removes the segment before it and stops at the root
RECURSIVE NormalizeFrom(_, _, _)
NormalizeFrom(segments, i, kept) ==
    IF i > Len(segments) THEN kept
    ELSE LET seg == segments[i]
         IN  IF seg = << >> \/ seg = Dot
             THEN NormalizeFrom(segments, i + 1, kept)
             ELSE IF seg = DotDot
             THEN NormalizeFrom(segments, i + 1,
                                IF kept = << >> THEN kept
                                ELSE SubSeq(kept, 1, Len(kept) - 1))
             ELSE NormalizeFrom(segments, i + 1, Append(kept, seg))

RECURSIVE JoinSegments(_)
JoinSegments(segments) ==
    IF segments = << >> THEN << >>
    ELSE << "/" >> \o Head(segments) \o JoinSegments(Tail(segments))

\* path.join(dir, rest) for an absolute dir: the two joined by a separator
\* and normalized; a trailing separator is kept
PathJoin(dir, rest) ==
    LET joined == IF rest = << >> THEN dir ELSE dir \o << "/" >> \o rest
        kept == NormalizeFrom(Split(joined), 1, << >>)
        trailing == joined[Len(joined)] = "/"
    IN  IF kept = << >> THEN << "/" >>
        ELSE JoinSegments(kept) \o (IF trailing THEN << "/" >> ELSE << >>)

UrlPrefix == << "/", "tmp", "/" >>

\* httpStaticServer.ts 51-61: the names fs.readdir gives, hidden ones left out
Listing(fs) ==
    { Split(SubSeq(f, Len(TMP_DIR) + 2, Len(f)))[1] :
        f \in { g \in DOMAIN fs : StartsWith(g, TMP_DIR \o << "/" >>) } }

Visible(names) == { f \in names : ~StartsWith(f, << "." >>) }

\* httpStaticServer.ts 37-83: the request handler, as the response it ends
\* with; `read` is the path given to fs.readFile
HttpHandler(url, fs) ==
    IF url = << >>
    THEN [ status |-> 400, body |-> << "Bad Request" >>, read |-> << >> ]
    ELSE IF ~StartsWith(url, UrlPrefix)
    THEN [ status |-> 404, body |-> << "Not Found" >>, read |-> << >> ]
    ELSE IF url = << "/", "tmp", "/" >> \/ url = << "/", "tmp" >>
    THEN [ status |-> 200, body |-> << "listing", Visible(Listing(fs)) >>,
           read |-> << >> ]
    ELSE LET filePath == PathJoin(TMP_DIR, ReplaceFirst(url, UrlPrefix, << >>))
         IN  IF ~StartsWith(filePath, TMP_DIR)
             THEN [ status |-> 403, body |-> << "Forbidden" >>, read |-> << >> ]
             ELSE IF filePath \notin DOMAIN fs
             THEN [ status |-> 404, body |-> << "Not Found" >>, read |-> filePath ]
             ELSE [ status |-> 200, body |-> << "file", fs[filePath] >>,
                    read |-> filePath ]

\* ------------------------------------------------- getHtml, in the page
\* args.selector || null: no selector, XPath expressions and CSS selectors
NoSelector == << >>

Selectors ==
    { NoSelector, << "/", "/", "div" >>, << ".", "/", "p" >>, << ".", "item" >> }

\* what document.evaluate or document.querySelector does with the selector:
\* it gives an element, a node that is no element, nothing, or it throws
Outcomes == { "element", "node", "none", "throws" }

NotEvaluated == << << >>, "pending" >>

IsXPathSlashOnly(selector) == StartsWith(selector, << "/" >>)

\* tools.ts 262-266
IsXPath(selector) ==
    \/ StartsWith(selector, << "/" >>)
    \/ StartsWith(selector, << ".", "/" >>)
    \/ StartsWith(selector, << "/", "/" >>)

\* tools.ts 277-298
XPathNotFound(selector) ==
    << "<title>XPath Element Not Found</title>", "XPath Selector:", selector >>

\* tools.ts 305-345
CssNotFound(selector) ==
    << "<title>CSS Element Not Found</title>", "CSS Selector:", selector >>

\* tools.ts 350-352
SelectorError ==
    << "Selector error: ", "SyntaxError",
       ". For XPath, use '//' or '/' prefix. For CSS, use standard selectors." >>

\* tools.ts 258-356: the function evaluated in the page
GetHtmlInPage(selector, found) ==
    IF selector = NoSelector THEN << "document.documentElement.outerHTML" >>
    ELSE IF found = "throws" THEN SelectorError
    ELSE IF IsXPath(selector)
    THEN IF found # "element" THEN XPathNotFound(selector)
         ELSE << "element.outerHTML", selector >>
    ELSE IF found # "element" THEN CssNotFound(selector)
         ELSE << "element.outerHTML", selector >>

\* ---------------------------------------------------------------- extract
\* tools.ts 175-210.  The text of the page is a string of characters.

\* the characters String.prototype.trim removes and \s matches, of those
\* that occur in the texts
WhiteSpace == { " ", "\t", "\r", "\n" }

Lower ==
    { "a", "b", "c", "d", "e", "f", "g", "h", "i", "j", "k", "l", "m",
      "n", "o", "p", "q", "r", "s", "t", "u", "v", "w", "x", "y", "z" }

Upper ==
    { "A", "B", "C", "D", "E", "F", "G", "H", "I", "J", "K", "L", "M",
      "N", "O", "P", "Q", "R", "S", "T", "U", "V", "W", "X", "Y", "Z" }

DecimalDigits == { "0", "1", "2", "3", "4", "5", "6", "7", "8", "9" }

HexDigits ==
    << "0", "1", "2", "3", "4", "5", "6", "7", "8", "9", "a", "b", "c", "d", "e", "f",
       "0", "1", "2", "3", "4", "5", "6", "7", "8", "9", "A", "B", "C", "D", "E", "F" >>

\* the characters with the codes 32 to 126, in the order of their codes; the
\* grave accent (96) is written "grave"
Printable ==
    << " ", "!", "\"", "#", "$", "%", "&", "'", "(", ")", "*", "+", ",", "-", ".", "/",
       "0", "1", "2", "3", "4", "5", "6", "7", "8", "9", ":", ";", "<", "=", ">", "?",
       "@", "A", "B", "C", "D", "E", "F", "G", "H", "I", "J", "K", "L", "M", "N", "O",
       "P", "Q", "R", "S", "T", "U", "V", "W", "X", "Y", "Z", "[", "\\", "]", "^", "_",
       "grave", "a", "b", "c", "d", "e", "f", "g", "h", "i", "j", "k", "l", "m", "n", "o",
       "p", "q", "r", "s", "t", "u", "v", "w", "x", "y", "z", "{", "|", "}", "~" >>

\* String.fromCharCode, for a line feed and the codes 32 to 126
FromCharCode(code) == IF code = 10 THEN "\n" ELSE Printable[code - 31]

IsHex(ch) == \E v \in 1..16 : ch = HexDigits[v] \/ ch = HexDigits[v + 16]

HexValue(ch) ==
    CHOOSE v \in 0..15 : ch = HexDigits[v + 1] \/ ch = HexDigits[v + 17]

\* parseInt(hex, 16) of a string of hexadecimal digits
RECURSIVE ParseHex(_)
ParseHex(hex) ==
    IF hex = << >> THEN 0
    ELSE ParseHex(SubSeq(hex, 1, Len(hex) - 1)) * 16 + HexValue(hex[Len(hex)])

\* bodyText.split("\n")
RECURSIVE SplitLinesFrom(_, _, _)
SplitLinesFrom(str, i, current) ==
    IF i > Len(str) THEN << current >>
    ELSE IF str[i] = "\n"
    THEN << current >> \o SplitLinesFrom(str, i + 1, << >>)
    ELSE SplitLinesFrom(str, i + 1, Append(current, str[i]))

SplitLines(str) == SplitLinesFrom(str, 1, << >>)

RECURSIVE TrimStart(_)
TrimStart(str) ==
    IF str # << >> /\ Head(str) \in WhiteSpace THEN TrimStart(Tail(str)) ELSE str

RECURSIVE TrimEnd(_)
TrimEnd(str) ==
    IF str # << >> /\ str[Len(str)] \in WhiteSpace
    THEN TrimEnd(SubSeq(str, 1, Len(str) - 1))
    ELSE str

\* String.prototype.trim
Trim(str) == TrimEnd(TrimStart(str))

\* String.prototype.includes
HasSubstring(str, part) ==
    \E i \in 1..(Len(str) - Len(part) + 1) : SubSeq(str, i, i + Len(part) - 1) = part

Keyframes == << "@", "k", "e", "y", "f", "r", "a", "m", "e", "s" >>

\* the length of the longest run of characters of `class` that starts at i:
\* what a greedy `[class]*` consumes there
RECURSIVE RunLength(_, _, _)
RunLength(str, i, class) ==
    IF i <= Len(str) /\ str[i] \in class
    THEN 1 + RunLength(str, i + 1, class)
    ELSE 0

\* [a-zA-Z0-9_-]
ClassNameChars == Lower \cup Upper \cup DecimalDigits \cup { "_", "-" }

\* tools.ts 189: /^\.[a-zA-Z0-9_-]+\s*{/.  Neither \s nor { is in the class
\* of the name, so the only match takes the longest run of each.
MatchesClassRule(line) ==
    /\ line # << >>
    /\ line[1] = "."
    /\ LET n == RunLength(line, 2, ClassNameChars)
           w == RunLength(line, 2 + n, WhiteSpace)
       IN  /\ n >= 1
           /\ 2 + n + w <= Len(line)
           /\ line[2 + n + w] = "{"

\* [a-zA-Z-]
PropertyChars == Lower \cup Upper \cup { "-" }

\* [a-zA-Z0-9%\s\(\)\.,-]
ValueChars ==
    Lower \cup Upper \cup DecimalDigits \cup WhiteSpace \cup { "%", "(", ")", ".", ",", "-" }

\* tools.ts 190: /^[a-zA-Z-]+:[a-zA-Z0-9%\s\(\)\.,-]+;$/.  Neither : nor ; is
\* in a class, so the only match takes the longest run of each.
MatchesDeclaration(line) ==
    LET n == RunLength(line, 1, PropertyChars)
        m == RunLength(line, n + 2, ValueChars)
    IN  /\ n >= 1
        /\ n + 1 <= Len(line)
        /\ line[n + 1] = ":"
        /\ m >= 1
        /\ n + 2 + m = Len(line)
        /\ line[Len(line)] = ";"

\* tools.ts 183-194: the callback of filter
Keeps(line) ==
    IF line = << >> THEN FALSE
    ELSE IF \/ HasSubstring(line, << "{" >>) /\ HasSubstring(line, << "}" >>)
            \/ HasSubstring(line, Keyframes)
            \/ MatchesClassRule(line)
            \/ MatchesDeclaration(line)
    THEN FALSE
    ELSE TRUE

\* /\\u([0-9a-fA-F]{4})/ matches at i
IsEscapeAt(str, i) ==
    /\ i + 5 <= Len(str)
    /\ str[i] = "\\"
    /\ str[i + 1] = "u"
    /\ \A k \in 2..5 : IsHex(str[i + k])

\* tools.ts 197-199: replace with the g flag goes through the line once, from
\* the left; what a replacement produced is not matched again
RECURSIVE DecodeFrom(_, _)
DecodeFrom(str, i) ==
    IF i > Len(str) THEN << >>
    ELSE IF IsEscapeAt(str, i)
    THEN << FromCharCode(ParseHex(SubSeq(str, i + 2, i + 5))) >> \o DecodeFrom(str, i + 6)
    ELSE << str[i] >> \o DecodeFrom(str, i + 1)

Decode(str) == DecodeFrom(str, 1)

\* tools.ts 182: map((line) => line.trim())
TrimAll(lines) == [ i \in 1..Len(lines) |-> Trim(lines[i]) ]

\* tools.ts 196-200: map((line) => line.replace(...))
DecodeAll(lines) == [ i \in 1..Len(lines) |-> Decode(lines[i]) ]

CleanupDecodeFirst(bodyText) ==
    SelectSeq(DecodeAll(TrimAll(SplitLines(bodyText))), Keeps)

\* tools.ts 180-200: split, trim, filter, decode
Cleanup(bodyText) ==
    DecodeAll(SelectSeq(TrimAll(SplitLines(bodyText)), Keeps))

\* content.join("\n")
RECURSIVE JoinLines(_)
JoinLines(lines) ==
    IF lines = << >> THEN << >>
    ELSE IF Len(lines) = 1 THEN lines[1]
    ELSE lines[1] \o << "\n" >> \o JoinLines(Tail(lines))

\* ------------------------------------------------------------------ ports
\* an environment variable is a string; unset and empty are both falsy
IsSet(env) == env # << >>

\* httpStaticServer.ts 32 and tools.ts 367: the default port
DefaultPort == 8080

Digits == << "0", "1", "2", "3", "4", "5", "6", "7", "8", "9" >>

\* parseInt(str, 10) of a string of decimal digits
RECURSIVE ParseInt(_)
ParseInt(str) ==
    IF str = << >> THEN 0
    ELSE LET last == str[Len(str)]
             digit == CHOOSE d \in 0..9 : Digits[d + 1] = last
         IN  ParseInt(SubSeq(str, 1, Len(str) - 1)) * 10 + digit

\* the decimal digits of a number, as a template string prints it
RECURSIVE NumberToString(_)
NumberToString(n) ==
    IF n < 10 THEN << Digits[n + 1] >>
    ELSE Append(NumberToString(n \div 10), Digits[(n % 10) + 1])

\* httpStaticServer.ts 32
HTTP_PORT(env) == IF IsSet(env) THEN ParseInt(env) ELSE DefaultPort

\* ---------------------------------------------------------------- startup
\* fs.readdirSync(directory): the names of the entries of the directory,
\* files and sub-directories
Readdir(fs, dirs, directory) ==
    { Split(SubSeq(f, Len(directory) + 2, Len(f)))[1] :
        f \in { g \in DOMAIN fs \cup dirs : StartsWith(g, directory \o << "/" >>) } }

\* the orders readdirSync can give the names in
Orders(names) ==
    { order \in [1..Cardinality(names) -> names] :
        \A i, j \in 1..Cardinality(names) : i # j => order[i] # order[j] }

\* fs.unlinkSync
Unlink(fs, filePath) == [ f \in DOMAIN fs \ { filePath } |-> fs[f] ]

\* httpStaticServer.ts 18-27: the loop over the entries, from entry i on.
\* unlinkSync throws on a directory; the catch around the loop ends it.
RECURSIVE CleanFrom(_, _, _, _, _)
CleanFrom(fs, dirs, directory, order, i) ==
    IF i > Len(order) THEN fs
    ELSE IF StartsWith(order[i], << "." >>)
    THEN CleanFrom(fs, dirs, directory, order, i + 1)
    ELSE LET filePath == PathJoin(directory, order[i])
         IN  IF filePath \in dirs
             THEN fs
             ELSE CleanFrom(Unlink(fs, filePath), dirs, directory, order, i + 1)

\* httpStaticServer.ts 10-28: the file system cleanTmpDirectory leaves
cleanTmpDirectory(fs, dirs, directory, order) ==
    IF directory \notin dirs THEN fs
    ELSE CleanFrom(fs, dirs, directory, order, 1)

\* ------------------------------------------------------------------- state
VARIABLES
    stagehandConfig,   \* server.ts 58: the configuration, fixed at module load
    stagehand,         \* server.ts 108: the stored handle, NoHandle when undefined
    constructed,       \* number of `new Stagehand(...)` so far: handle identities
    initialized,       \* handles whose init() has resolved
    operationLogs,     \* logging.ts: the OperationLog
    pc,                \* per call: the suspension point it is at
    name,              \* per call: request.params.name
    thrown,            \* per call: the error ensureStagehand rejected with
    handle,            \* per call: the value ensureStagehand resolved with
    html,              \* per call: the string the in-page evaluation returned
    result,            \* per call: the value handleToolCall resolved with
    response,          \* per call: what the handler returned to the transport
    probed,            \* history: the handle the call's liveness probe ran on
    probeError,        \* history: what that probe rejected with
    created,           \* history: the handles the call constructed
    opError,           \* history: what the call's bound operation rejected with
    evaluated,         \* history: the selector of getHtml and what the page found,
                       \* or the text the page returned to extract
    now,               \* the last reading of the clock (Date.now(), new Date())
    screenshots,       \* resources.ts: the ScreenshotStore, name -> base64 data
    notifications,     \* number of resources/list_changed notifications sent
    files,             \* the file system: path -> content
    httpRequest,       \* the url of the last request to the static server
    httpResponse,      \* the response to it
    directories,       \* the file system: the paths that are directories
    httpPortEnv,       \* process.env.STAGEHAND_HTTP_PORT, empty when unset
    httpServer         \* the static server: its state and its ports

vars ==
    << stagehandConfig, stagehand, constructed, initialized, operationLogs, pc,
       name, thrown, handle, html, result, response, probed, probeError,
       created, opError, evaluated, now, screenshots, notifications, files,
       httpRequest, httpResponse, directories, httpPortEnv, httpServer >>

startup == << directories, httpPortEnv, httpServer >>

stores ==
    << now, screenshots, notifications, files, httpRequest, httpResponse, startup >>

http == << httpRequest, httpResponse >>

history == << probed, probeError, created, opError, evaluated >>

\* no call has arrived, nothing is stored, no request was made
InitIdle ==
    /\ pc = [c \in Calls |-> "idle"]
    /\ name = [c \in Calls |-> Undefined]
    /\ thrown = [c \in Calls |-> NoError]
    /\ handle = [c \in Calls |-> NoHandle]
    /\ html = [c \in Calls |-> << >>]
    /\ result = [c \in Calls |-> NoResponse]
    /\ response = [c \in Calls |-> NoResponse]
    /\ probed = [c \in Calls |-> NoHandle]
    /\ probeError = [c \in Calls |-> NoError]
    /\ created = [c \in Calls |-> {}]
    /\ opError = [c \in Calls |-> NoError]
    /\ evaluated = [c \in Calls |-> NotEvaluated]
    /\ now = 0
    /\ screenshots = << >>
    /\ notifications = 0
    /\ httpRequest = << >>
    /\ httpResponse = [ status |-> 0, body |-> << >>, read |-> << >> ]

\* the process before index.ts has started the static server
InitProcess ==
    /\ stagehandConfig \in Configs
    /\ stagehand = NoHandle
    /\ constructed = 0
    /\ initialized = {}
    /\ operationLogs = << >>
    /\ InitIdle

\* index.ts 20-24: the static server is started before the protocol server
\* is created.  Here the port override is unset, the directory held one
\* hidden file and the default port was free.
Started ==
    /\ files = InitialFiles
    /\ directories = { TMP_DIR }
    /\ httpPortEnv = << >>
    /\ httpServer = [ state |-> "listening", reported |-> DefaultPort,
                      bound |-> DefaultPort ]

Init == InitProcess /\ Started

\* The state an earlier call, answered before the calls of Calls arrive,
\* has left: its session is stored and initialized and the log holds the
\* line of its response.
InitSession ==
    /\ stagehandConfig = MakeConfig(Undefined, Undefined, "ws://cdp", "sk-1")
    /\ stagehand = 1
    /\ constructed = 1
    /\ initialized = { 1 }
    /\ operationLogs = << [ call |-> 0, line |-> << "RESPONSE: CallTool" >> ] >>
    /\ InitIdle
    /\ Started

LogOverwrites(logs, c, line) == << [ call |-> c, line |-> line ] >>

\* logging.ts log(): one line appended to the OperationLog.  The `call`
\* field records which call appended the line.
log(logs, c, line) == Append(logs, [ call |-> c, line |-> line ])

LogFailed(logs, c, error) ==
    log(logs, c, << "Failed to initialize/reinitialize Stagehand: ", error.message >>)

LogExpired(logs, c) ==
    log(logs, c, << "Browser session expired, reinitializing Stagehand..." >>)

SetLengthSkipped(logs, n) == logs

\* server.ts 198: `operationLogs.length = 0`
SetLength(logs, n) == SubSeq(logs, 1, n)

\* a returned response is sent before anything else runs
NoneReturned == \A d \in Calls : pc[d] # "done"

InFlight(c) == pc[c] \notin { "idle", "done", "delivered" }

\* A call whose promise has settled continues in a job of the microtask
\* queue; the queue is emptied before the next message of the transport is
\* read.
NoJobQueued ==
    \A d \in Calls : pc[d] \notin { "ensureResolved", "ensureRejected", "toolReturned" }

\* ------------------------------------------------------- ensureStagehand
\* server.ts 123-124 and 143-144: `stagehand = new Stagehand(stagehandConfig)`
\* followed by the call of init(), which suspends.  `logs` is the log as the
\* code before it left it.
ConstructAndInit(c, logs) ==
    /\ constructed' = constructed + 1
    /\ stagehand' = constructed + 1
    /\ created' = [created EXCEPT ![c] = @ \cup { constructed + 1 }]
    /\ operationLogs' = logs
    /\ pc' = [pc EXCEPT ![c] = "awaitInit"]
    /\ UNCHANGED thrown

\* server.ts 149-153: the outer catch logs and rethrows
EnsureThrows(c, error, logs) ==
    /\ operationLogs' = LogFailed(logs, c, error)
    /\ thrown' = [thrown EXCEPT ![c] = error]
    /\ pc' = [pc EXCEPT ![c] = "ensureRejected"]
    /\ UNCHANGED << stagehand, constructed, created >>

\* server.ts 132-148: the catch of the liveness probe
ProbeFailedSingleFlight(c, error, logs) ==
    /\ probeError' = [probeError EXCEPT ![c] = error]
    /\ IF IsSessionInvalid(error)
       THEN IF stagehand = probed[c]
            THEN ConstructAndInit(c, LogExpired(logs, c))
            ELSE /\ pc' = [pc EXCEPT ![c] = "awaitInit"]
                 /\ operationLogs' = logs
                 /\ UNCHANGED << stagehand, constructed, created, thrown >>
       ELSE EnsureThrows(c, error, logs)

ProbeFailed(c, error, logs) ==
    /\ probeError' = [probeError EXCEPT ![c] = error]
    /\ IF IsSessionInvalid(error)
       THEN ConstructAndInit(c, LogExpired(logs, c))
       ELSE EnsureThrows(c, error, logs)

\* server.ts 111-130: ensureStagehand up to its first suspension
ensureStagehand(c, logs) ==
    IF LocalWithoutCdp(stagehandConfig)
    THEN \* thrown before the try: not logged
         /\ thrown' = [thrown EXCEPT ![c] = Err(MsgNoCdp)]
         /\ pc' = [pc EXCEPT ![c] = "ensureRejected"]
         /\ operationLogs' = logs
         /\ UNCHANGED << stagehand, constructed, created, probed, probeError >>
    ELSE IF stagehand = NoHandle
    THEN /\ ConstructAndInit(c, logs)
         /\ UNCHANGED << probed, probeError >>
    ELSE /\ probed' = [probed EXCEPT ![c] = stagehand]
         /\ IF stagehand \in initialized
            THEN \* stagehand.page.evaluate(...) is pending
                 /\ pc' = [pc EXCEPT ![c] = "awaitProbe"]
                 /\ operationLogs' = logs
                 /\ UNCHANGED << stagehand, constructed, created, thrown, probeError >>
            ELSE \* the handle has no page: the probe throws at once
                 ProbeFailed(c, Err(MsgNotInit), logs)

\* ------------------------------------------------- the call-tool handler
\* server.ts 196-209: logRequest, the clearing of the log, the check of the
\* name, and the call of ensureStagehand
CallTool(c, n) ==
    /\ NoneReturned
    /\ NoJobQueued
    /\ pc[c] = "idle"
    /\ \A d \in 1..(c - 1) : pc[d] # "idle"
    /\ name' = [name EXCEPT ![c] = n]
    /\ LET requested == log(operationLogs, c, << "REQUEST: CallTool" >>)
           cleared == SetLength(requested, 0)
       IN  IF ~Truthy(n) \/ n \notin TOOLS
           THEN /\ response' = [response EXCEPT ![c] = InternalError(InvalidToolName(n))]
                /\ pc' = [pc EXCEPT ![c] = "done"]
                /\ operationLogs' = cleared
                /\ UNCHANGED << stagehand, constructed, created, thrown, probed,
                                probeError >>
           ELSE /\ ensureStagehand(c, cleared)
                /\ UNCHANGED response
    /\ UNCHANGED << stagehandConfig, initialized, handle, html, result, opError,
                    evaluated, stores >>

\* server.ts 124-125 and 144-145: init() resolved, `return stagehand`
InitResolve(c) ==
    /\ NoneReturned
    /\ pc[c] = "awaitInit"
    /\ initialized' = initialized \cup created[c]
    /\ handle' = [handle EXCEPT ![c] = stagehand]
    /\ pc' = [pc EXCEPT ![c] = "ensureResolved"]
    /\ UNCHANGED << stagehandConfig, stagehand, constructed, operationLogs, name,
                    thrown, html, result, response, history, stores >>

\* init() rejected
InitReject(c, error) ==
    /\ NoneReturned
    /\ pc[c] = "awaitInit"
    /\ EnsureThrows(c, error, operationLogs)
    /\ UNCHANGED << stagehandConfig, initialized, name, handle, html, result, response,
                    probed, probeError, opError, evaluated, stores >>

\* server.ts 130-131: the probe resolved, `return stagehand`
ProbeResolve(c) ==
    /\ NoneReturned
    /\ pc[c] = "awaitProbe"
    /\ handle' = [handle EXCEPT ![c] = stagehand]
    /\ pc' = [pc EXCEPT ![c] = "ensureResolved"]
    /\ UNCHANGED << stagehandConfig, stagehand, constructed, initialized,
                    operationLogs, name, thrown, html, result, response, history,
                    stores >>

\* the probe rejected
ProbeReject(c, error) ==
    /\ NoneReturned
    /\ pc[c] = "awaitProbe"
    /\ ProbeFailed(c, error, operationLogs)
    /\ UNCHANGED << stagehandConfig, initialized, name, handle, html, result, response,
                    probed, opError, evaluated, stores >>

\* server.ts 210-229: the catch around `await ensureStagehand()`
EnsureRejected(c) ==
    /\ NoneReturned
    /\ pc[c] = "ensureRejected"
    /\ response' = [response EXCEPT ![c] =
                        EnsureFailure(thrown[c], stagehandConfig, operationLogs)]
    /\ pc' = [pc EXCEPT ![c] = "done"]
    /\ UNCHANGED << stagehandConfig, stagehand, constructed, initialized,
                    operationLogs, name, thrown, handle, html, result, history, stores >>

\* --------------------------------------------------------- handleToolCall
EnsureResolvedInTurn(c) ==
    /\ NoneReturned
    /\ pc[c] = "ensureResolved"
    /\ \A d \in Calls : pc[d] # "awaitOp"
    /\ stagehand' = handle[c]
    /\ pc' = [pc EXCEPT ![c] = IF handle[c] \in initialized THEN "awaitOp"
                                ELSE "toolReturned"]
    /\ opError' = [opError EXCEPT ![c] = IF handle[c] \in initialized THEN @
                                          ELSE Err(MsgNotInit)]
    /\ result' = [result EXCEPT ![c] =
                      IF handle[c] \in initialized THEN @
                      ELSE ToolFailure(name[c], Err(MsgNotInit), operationLogs)]
    /\ UNCHANGED << stagehandConfig, constructed, initialized, operationLogs, name,
                    thrown, handle, html, response, probed, probeError, created,
                    evaluated, stores >>

\* server.ts 209 and 231-235: `stagehand = await ensureStagehand()` assigns
\* the resolved value, then handleToolCall runs up to its first suspension.
\* Reading `.page` of a handle whose init() has not resolved throws inside
\* the try of the case.
EnsureResolved(c) ==
    /\ NoneReturned
    /\ pc[c] = "ensureResolved"
    /\ stagehand' = handle[c]
    /\ IF name[c] \notin ToolNames
       THEN /\ result' = [result EXCEPT ![c] = UnknownTool(name[c], operationLogs)]
            /\ pc' = [pc EXCEPT ![c] = "toolReturned"]
            /\ UNCHANGED opError
       ELSE IF handle[c] \in initialized
       THEN /\ pc' = [pc EXCEPT ![c] = "awaitOp"]
            /\ UNCHANGED << result, opError >>
       ELSE /\ opError' = [opError EXCEPT ![c] = Err(MsgNotInit)]
            /\ result' = [result EXCEPT ![c] =
                              ToolFailure(name[c], Err(MsgNotInit), operationLogs)]
            /\ pc' = [pc EXCEPT ![c] = "toolReturned"]
    /\ UNCHANGED << stagehandConfig, constructed, initialized, operationLogs, name,
                    thrown, handle, html, response, probed, probeError, created,
                    evaluated, stores >>

\* tools.ts 404-406: `screenshot-${new Date().toISOString().replace(/:/g, "-")}`
ScreenshotName(t) == << "screenshot-", ToString(t) >>

\* Map.prototype.set
MapSet(map, key, value) ==
    [ k \in DOMAIN map \cup { key } |-> IF k = key THEN value ELSE map[k] ]

\* the awaited page operation resolved (goto, act, evaluate, observe,
\* screenshot): the rest of the try block of the case
OpResolve(c, t, selector, found) ==
    /\ NoneReturned
    /\ pc[c] = "awaitOp"
    /\ name[c] # "stagehand_extract"
    /\ selector = NoSelector => found = "element"
    /\ now' = IF name[c] = "screenshot" THEN t ELSE now
    /\ CASE name[c] = "stagehand_get_html" ->
              \* tools.ts 258-366: the value of the evaluation, up to the write
              \* of the file.  `selector` is args.selector of the request;
              \* nothing reads it before this point.
              /\ html' = [html EXCEPT ![c] = GetHtmlInPage(selector, found)]
              /\ evaluated' = [evaluated EXCEPT ![c] = << selector, found >>]
              /\ pc' = [pc EXCEPT ![c] = "awaitWrite"]
              /\ UNCHANGED << result, screenshots, notifications >>
         [] name[c] = "screenshot" ->
              \* tools.ts 403-430
              LET data == << "png", ToString(handle[c]) >>
                  shot == ScreenshotName(t)
              IN  /\ screenshots' = MapSet(screenshots, shot, data)
                  \* tools.ts 410-415: the server instance is set (server.ts 174)
                  /\ notifications' = notifications + 1
                  /\ result' = [result EXCEPT ![c] =
                        [ content |-> << Text(<< "Screenshot taken with name: ", shot >>),
                                         Image(data) >>,
                          isError |-> FALSE ]]
                  /\ pc' = [pc EXCEPT ![c] = "toolReturned"]
                  /\ UNCHANGED << html, evaluated >>
         [] OTHER ->
              /\ result' = [result EXCEPT ![c] =
                                ToolSuccess(name[c], ToString(handle[c]))]
              /\ pc' = [pc EXCEPT ![c] = "toolReturned"]
              /\ UNCHANGED << html, screenshots, notifications, evaluated >>
    /\ UNCHANGED << stagehandConfig, stagehand, constructed, initialized,
                    operationLogs, name, thrown, handle, response, probed,
                    probeError, created, opError, files, http, startup >>

\* tools.ts 177-210: document.body.innerText arrived; the rest of the try
\* block of the case
ExtractResolve(c, bodyText) ==
    /\ NoneReturned
    /\ pc[c] = "awaitOp"
    /\ name[c] = "stagehand_extract"
    /\ evaluated' = [evaluated EXCEPT ![c] = << bodyText, "text" >>]
    /\ result' = [result EXCEPT ![c] =
                      ToolSuccess(name[c], JoinLines(Cleanup(bodyText)))]
    /\ pc' = [pc EXCEPT ![c] = "toolReturned"]
    /\ UNCHANGED << stagehandConfig, stagehand, constructed, initialized,
                    operationLogs, name, thrown, handle, html, response, probed,
                    probeError, created, opError, stores >>

\* the awaited page operation rejected: the catch block of the case
OpReject(c, error) ==
    /\ NoneReturned
    /\ pc[c] = "awaitOp"
    /\ opError' = [opError EXCEPT ![c] = error]
    /\ result' = [result EXCEPT ![c] = ToolFailure(name[c], error, operationLogs)]
    /\ pc' = [pc EXCEPT ![c] = "toolReturned"]
    /\ UNCHANGED << stagehandConfig, stagehand, constructed, initialized,
                    operationLogs, name, thrown, handle, html, response, probed,
                    probeError, created, evaluated, stores >>

\* tools.ts 363-364: `stagehand-html-${Date.now()}-${randomBytes(6).toString("hex")}.html`
ArtifactName(t, random) == << "stagehand-html-", ToString(t), "-", random, ".html" >>

RandomHex == { "a1", "b2" }

ArtifactPathElsewhere(filename) == << "/", "srv", "/", "tmp", "2", "/" >> \o filename

\* tools.ts 361 and 365: path.join(TMP_DIR, filename), TMP_DIR being the
\* directory the static server serves
ArtifactPath(filename) == TMP_DIR \o << "/" >> \o filename

\* tools.ts 367: process.env.STAGEHAND_HTTP_PORT || 8080, as `${port}` prints it
ArtifactPort(env) == IF IsSet(env) THEN env ELSE NumberToString(DefaultPort)

\* tools.ts 362-378: mkdir and writeFile resolved
WriteResolve(c, t, random) ==
    /\ NoneReturned
    /\ pc[c] = "awaitWrite"
    /\ now' = t
    /\ LET filename == ArtifactName(t, random)
           filePath == ArtifactPath(filename)
           url == << "http://localhost:", ArtifactPort(httpPortEnv), "/", "tmp", "/" >>
                      \o filename
       IN  /\ files' = MapSet(files, filePath, html[c])
           /\ directories' = directories \cup { TMP_DIR }
           /\ result' = [result EXCEPT ![c] =
                 [ content |-> << Text(<< "HTML saved to: ", url >>) >>,
                   isError |-> FALSE ]]
    /\ pc' = [pc EXCEPT ![c] = "toolReturned"]
    /\ UNCHANGED << stagehandConfig, stagehand, constructed, initialized,
                    operationLogs, name, thrown, handle, html, response, history,
                    screenshots, notifications, http, httpPortEnv, httpServer >>

\* mkdir or writeFile rejected: the catch block of stagehand_get_html
WriteReject(c, error) ==
    /\ NoneReturned
    /\ pc[c] = "awaitWrite"
    /\ opError' = [opError EXCEPT ![c] = error]
    /\ result' = [result EXCEPT ![c] = ToolFailure(name[c], error, operationLogs)]
    /\ pc' = [pc EXCEPT ![c] = "toolReturned"]
    /\ UNCHANGED << stagehandConfig, stagehand, constructed, initialized,
                    operationLogs, name, thrown, handle, html, response, probed,
                    probeError, created, evaluated, stores >>

\* utils.ts sanitizeMessage: the message as JSON text
sanitizeMessage(message) == [ json |-> message ]

JSONparse(text) == text.json

\* server.ts 237-239: handleToolCall resolved; logResponse and the return
Respond(c) ==
    /\ NoneReturned
    /\ pc[c] = "toolReturned"
    /\ LET sanitizedResult == sanitizeMessage(result[c])
       IN  /\ operationLogs' = log(operationLogs, c, << "RESPONSE: CallTool" >>)
           /\ response' = [response EXCEPT ![c] = JSONparse(sanitizedResult)]
    /\ pc' = [pc EXCEPT ![c] = "done"]
    /\ UNCHANGED << stagehandConfig, stagehand, constructed, initialized, name,
                    thrown, handle, html, result, history, stores >>

\* The transport sends the response the handler returned; nothing of the
\* call remains in the process.
Deliver(c) ==
    /\ pc[c] = "done"
    /\ pc' = [pc EXCEPT ![c] = "delivered"]
    /\ name' = [name EXCEPT ![c] = Undefined]
    /\ thrown' = [thrown EXCEPT ![c] = NoError]
    /\ handle' = [handle EXCEPT ![c] = NoHandle]
    /\ html' = [html EXCEPT ![c] = << >>]
    /\ result' = [result EXCEPT ![c] = NoResponse]
    /\ response' = [response EXCEPT ![c] = NoResponse]
    /\ probed' = [probed EXCEPT ![c] = NoHandle]
    /\ probeError' = [probeError EXCEPT ![c] = NoError]
    /\ created' = [created EXCEPT ![c] = {}]
    /\ opError' = [opError EXCEPT ![c] = NoError]
    /\ evaluated' = [evaluated EXCEPT ![c] = NotEvaluated]
    /\ UNCHANGED << stagehandConfig, stagehand, constructed, initialized,
                    operationLogs, stores >>

\* -------------------------------------------------------- specifications
\* what a read of the clock can return: the clock does not run backwards
ClockReads == now..MaxTime

NoCallInFlight == \A d \in Calls : ~InFlight(d)

\* the text of the page in the specifications that are not about extract:
\* a line of text and a line of a style sheet
PageText == << "H", "i", "\n", ".", "a", " ", "{" >>

\* the transport pipelines requests: calls may overlap.  The getHtml
\* requests of this specification carry no selector.
Next ==
    \/ \E c \in Calls, n \in RequestNames : CallTool(c, n)
    \/ \E c \in Calls : InitResolve(c)
    \/ \E c \in Calls, e \in InitErrors : InitReject(c, e)
    \/ \E c \in Calls : ProbeResolve(c)
    \/ \E c \in Calls, e \in ProbeErrors : ProbeReject(c, e)
    \/ \E c \in Calls : EnsureRejected(c)
    \/ \E c \in Calls : EnsureResolved(c)
    \/ \E c \in Calls, t \in ClockReads : OpResolve(c, t, NoSelector, "element")
    \/ \E c \in Calls : ExtractResolve(c, PageText)
    \/ \E c \in Calls, e \in OpErrors : OpReject(c, e)
    \/ \E c \in Calls, t \in ClockReads, r \in RandomHex : WriteResolve(c, t, r)
    \/ \E c \in Calls, e \in WriteErrors : WriteReject(c, e)
    \/ \E c \in Calls : Respond(c)
    \/ \E c \in Calls : Deliver(c)

Spec == Init /\ [][Next]_vars

\* the client sends a request after the response to the one before
NextSeq ==
    \/ \E c \in Calls, n \in RequestNames : NoCallInFlight /\ CallTool(c, n)
    \/ \E c \in Calls : InitResolve(c)
    \/ \E c \in Calls, e \in InitErrors : InitReject(c, e)
    \/ \E c \in Calls : ProbeResolve(c)
    \/ \E c \in Calls, e \in ProbeErrors : ProbeReject(c, e)
    \/ \E c \in Calls : EnsureRejected(c)
    \/ \E c \in Calls : EnsureResolved(c)
    \/ \E c \in Calls, t \in ClockReads : OpResolve(c, t, NoSelector, "element")
    \/ \E c \in Calls : ExtractResolve(c, PageText)
    \/ \E c \in Calls, e \in OpErrors : OpReject(c, e)
    \/ \E c \in Calls, t \in ClockReads, r \in RandomHex : WriteResolve(c, t, r)
    \/ \E c \in Calls, e \in WriteErrors : WriteReject(c, e)
    \/ \E c \in Calls : Respond(c)
    \/ \E c \in Calls : Deliver(c)

SpecSeq == Init /\ [][NextSeq]_vars

\* one probe failure of the invalidation class and one of another kind
EnsureProbeErrors == { Err(MsgExpired), Err(MsgTimeout) }

\* overlapping calls of one tool on the session of an earlier call; the
\* operation itself succeeds
NextEnsure ==
    \/ \E c \in Calls : CallTool(c, "stagehand_navigate")
    \/ \E c \in Calls : InitResolve(c)
    \/ \E c \in Calls, e \in InitErrors : InitReject(c, e)
    \/ \E c \in Calls : ProbeResolve(c)
    \/ \E c \in Calls, e \in EnsureProbeErrors : ProbeReject(c, e)
    \/ \E c \in Calls : EnsureRejected(c)
    \/ \E c \in Calls : EnsureResolved(c)
    \/ \E c \in Calls : OpResolve(c, now, NoSelector, "element")
    \/ \E c \in Calls : Respond(c)
    \/ \E c \in Calls : Deliver(c)

SpecEnsure == InitSession /\ [][NextEnsure]_vars

\* new URL(url).pathname: the url without scheme, host and port
UrlPath(url) == SubSeq(url, 3, Len(url))

\* the client that received the url of an artifact requests it from the
\* static server
Fetch(c) ==
    /\ pc[c] = "done"
    /\ name[c] = "stagehand_get_html"
    /\ "isError" \in DOMAIN response[c]
    /\ ~response[c].isError
    /\ LET url == response[c].content[1].text[2]
       IN  /\ httpRequest' = UrlPath(url)
           /\ httpResponse' = HttpHandler(UrlPath(url), files)
    /\ UNCHANGED << stagehandConfig, stagehand, constructed, initialized,
                    operationLogs, pc, name, thrown, handle, html, result, response,
                    history, now, screenshots, notifications, files, startup >>

\* getHtml requests with every selector, one after the other, on a session
\* that stays valid; each artifact is requested from the static server when
\* its url arrives
NextHtml ==
    \/ \E c \in Calls : NoCallInFlight /\ CallTool(c, "stagehand_get_html")
    \/ \E c \in Calls : InitResolve(c)
    \/ \E c \in Calls : ProbeResolve(c)
    \/ \E c \in Calls : EnsureResolved(c)
    \/ \E c \in Calls, t \in ClockReads, selector \in Selectors, found \in Outcomes :
          OpResolve(c, t, selector, found)
    \/ \E c \in Calls, e \in OpErrors : OpReject(c, e)
    \/ \E c \in Calls, t \in ClockReads, r \in RandomHex : WriteResolve(c, t, r)
    \/ \E c \in Calls, e \in WriteErrors : WriteReject(c, e)
    \/ \E c \in Calls : Respond(c)
    \/ \E c \in Calls : Deliver(c)
    \/ \E c \in Calls : Fetch(c)

\* getHtml reads nothing of the configuration
InitHtml == Init /\ stagehandConfig = MakeConfig(Undefined, Undefined, "ws://cdp", "sk-1")

SpecHtml == InitHtml /\ [][NextHtml]_vars

\* what the process is waiting for from outside: the calls it awaits
Awaiting(c) == pc[c] \in { "awaitInit", "awaitProbe", "awaitOp", "awaitWrite" }

\* the continuation of a call in the process: a job of the microtask queue,
\* or the transport sending what the handler returned
Continue(c) ==
    EnsureRejected(c) \/ EnsureResolved(c) \/ Respond(c) \/ Deliver(c)

\* overlapping getHtml requests, the first of which creates the session:
\* init, probe, page operation and file write can each resolve or reject
NextLive ==
    \/ \E c \in Calls : CallTool(c, "stagehand_get_html")
    \/ \E c \in Calls : InitResolve(c)
    \/ \E c \in Calls, e \in InitErrors : InitReject(c, e)
    \/ \E c \in Calls : ProbeResolve(c)
    \/ \E c \in Calls, e \in EnsureProbeErrors : ProbeReject(c, e)
    \/ \E c \in Calls : EnsureRejected(c)
    \/ \E c \in Calls : EnsureResolved(c)
    \/ \E c \in Calls : OpResolve(c, now, NoSelector, "element")
    \/ \E c \in Calls, e \in InitErrors : OpReject(c, e)
    \/ \E c \in Calls : WriteResolve(c, now, "a1")
    \/ \E c \in Calls, e \in WriteErrors : WriteReject(c, e)
    \/ \E c \in Calls : Respond(c)
    \/ \E c \in Calls : Deliver(c)

\* The event loop runs every queued job and the transport sends every
\* returned response.  Nothing is assumed of the awaited calls: each may
\* stay pending for ever.
SpecLive ==
    /\ InitHtml
    /\ [][NextLive]_vars
    /\ \A c \in Calls : WF_vars(Continue(c))

\* lines of a page: text, blank lines, lines each drop rule matches, lines
\* that come close to one, and lines with escapes
PageLines ==
    { << " ", "o", "k", "\t" >>,   \* kept, trimmed
      << " ", "\t" >>,   \* empty once trimmed
      << "a", "{", "b", "}" >>,   \* both braces
      << "@", "k", "e", "y", "f", "r", "a", "m", "e", "s" >>,   \* an animation
      << " ", ".", "b", "-", "1", " ", "{" >>,   \* a class rule, once trimmed
      << "c", ":", " ", "r", ";" >>,   \* a declaration
      << "c", ":", " ", "#", "f", ";" >>,   \* # is not a character of a value
      << "c", ":", "r", ";", "x" >>,   \* the declaration is not the whole line
      << ".", " ", "{" >>,   \* a class rule without a name
      << "\\", "u", "0", "0", "7", "b", "x", "\\", "u", "0", "0", "7", "d" >>,   \* escaped braces
      << "\\", "u", "0", "0", "5", "c", "u", "0", "0", "4", "1" >> }   \* an escaped backslash before u0041

\* the texts document.body.innerText can return: up to MaxLines of the lines
BodyTexts ==
    { JoinLines(lines) : lines \in UNION { [1..n -> PageLines] : n \in 0..MaxLines } }

\* extract requests, one after the other, on a session that stays valid, for
\* every text of the page
NextExtract ==
    \/ \E c \in Calls : NoCallInFlight /\ CallTool(c, "stagehand_extract")
    \/ \E c \in Calls : InitResolve(c)
    \/ \E c \in Calls : ProbeResolve(c)
    \/ \E c \in Calls : EnsureResolved(c)
    \/ \E c \in Calls, bodyText \in BodyTexts : ExtractResolve(c, bodyText)
    \/ \E c \in Calls, e \in OpErrors : OpReject(c, e)
    \/ \E c \in Calls : Respond(c)
    \/ \E c \in Calls : Deliver(c)

SpecExtract == InitHtml /\ [][NextExtract]_vars

\* ------------------------------------------------ the static artifact server
UrlSegments ==
    { DotDot, << >>, << "tmp" >>, << "tmp", "2" >>, << "a" >>, << ".", "keep" >> }

RECURSIVE UrlsOfDepth(_)
UrlsOfDepth(n) ==
    IF n = 0 THEN { << "/", "tmp" >> }
    ELSE { u \o << "/" >> \o seg : u \in UrlsOfDepth(n - 1), seg \in UrlSegments }

\* request urls: under the prefix with up to MaxDepth segments, and others
Urls ==
    UNION { UrlsOfDepth(n) : n \in 0..MaxDepth }
      \cup { << >>, << "/" >>, << "/", "a" >>, << "/", "srv", "/", "tmp", "/", "a" >>,
             << "/", "tmp", "2", "/", "a" >> }

HttpGet(url) ==
    /\ httpRequest' = url
    /\ httpResponse' = HttpHandler(url, files)
    /\ UNCHANGED << stagehandConfig, stagehand, constructed, initialized,
                    operationLogs, pc, name, thrown, handle, html, result, response,
                    history, now, screenshots, notifications, files, startup >>

NextHttp == \E url \in Urls : HttpGet(url)

\* the static server reads nothing of the configuration
InitHttp == Init /\ stagehandConfig = MakeConfig(Undefined, Undefined, "ws://cdp", "sk-1")

SpecHttp == InitHttp /\ [][NextHttp]_vars

\* ------------------------------------------------- startup of the process
\* what the ArtifactDirectory can hold when the process starts
PreEntries ==
    { [ name |-> << "a" >>, kind |-> "file" ],
      [ name |-> << "b" >>, kind |-> "file" ],
      [ name |-> << ".", "keep" >>, kind |-> "file" ],
      [ name |-> << "sub" >>, kind |-> "directory" ],
      [ name |-> << ".", "cache" >>, kind |-> "directory" ] }

EntryPath(entry) == TMP_DIR \o << "/" >> \o entry.name

\* files beside and above the directory
OutsideFiles ==
    [ f \in { g \in DOMAIN InitialFiles : ~StartsWith(g, TMP_DIR \o << "/" >>) }
        |-> InitialFiles[f] ]

\* values of STAGEHAND_HTTP_PORT: unset, 0, the default and another port
PortEnvs == { << >>, << "0" >>, << "8", "0", "8", "0" >>, << "3", "0", "0", "0" >> }

\* ports the system gives to a server that asks for port 0
DynamicPorts == { 49152, 49153 }

InitStart ==
    /\ InitProcess
    /\ stagehandConfig = MakeConfig(Undefined, Undefined, "ws://cdp", "sk-1")
    /\ \E exists \in BOOLEAN, entries \in SUBSET PreEntries :
          /\ Cardinality(entries) <= MaxEntries
          /\ ~exists => entries = {}
          /\ files = OutsideFiles @@
                [ f \in { EntryPath(e) : e \in { x \in entries : x.kind = "file" } }
                    |-> IF f \in DOMAIN InitialFiles THEN InitialFiles[f] ELSE "old" ]
          /\ directories =
                (IF exists THEN { TMP_DIR } ELSE {}) \cup
                { EntryPath(e) : e \in { x \in entries : x.kind = "directory" } }
    /\ httpPortEnv \in PortEnvs
    /\ httpServer = [ state |-> "stopped", reported |-> 0, bound |-> 0 ]

calls ==
    << stagehandConfig, stagehand, constructed, initialized, operationLogs, pc,
       name, thrown, handle, html, result, response, history, now, screenshots,
       notifications, http >>

\* httpStaticServer.ts 30-36 and 84-93: the directory is made or cleaned,
\* the server is created, listen() is called and the configured port is
\* returned at once; `order` is the order readdirSync gave
StartStaticHttpServer(order) ==
    /\ httpServer.state = "stopped"
    /\ order \in Orders(Readdir(files, directories, TMP_DIR))
    /\ files' = cleanTmpDirectory(files, directories, TMP_DIR, order)
    /\ directories' = directories \cup { TMP_DIR }
    /\ httpServer' = [ state |-> "binding", reported |-> HTTP_PORT(httpPortEnv),
                       bound |-> 0 ]
    /\ UNCHANGED << calls, httpPortEnv >>

\* httpStaticServer.ts 85-92: the server is bound and the callback of
\* listen() runs; a server that asked for port 0 is given a port by the system
Listening(port) ==
    /\ httpServer.state = "binding"
    /\ IF HTTP_PORT(httpPortEnv) = 0
       THEN port \in DynamicPorts
       ELSE port = HTTP_PORT(httpPortEnv)
    /\ httpServer' = [ httpServer EXCEPT !.state = "listening", !.bound = port ]
    /\ UNCHANGED << calls, files, directories, httpPortEnv >>

\* the configured port is in use: the server emits 'error' (EADDRINUSE), for
\* which no listener is registered; nothing listens on another port
ListenError ==
    /\ httpServer.state = "binding"
    /\ HTTP_PORT(httpPortEnv) # 0
    /\ httpServer' = [ httpServer EXCEPT !.state = "failed" ]
    /\ UNCHANGED << calls, files, directories, httpPortEnv >>

NextStart ==
    \/ \E order \in Orders(Readdir(files, directories, TMP_DIR)) :
          StartStaticHttpServer(order)
    \/ \E port \in DynamicPorts \cup { HTTP_PORT(httpPortEnv) } : Listening(port)
    \/ ListenError

SpecStart == InitStart /\ [][NextStart]_vars

\* ------------------------------------------------------------------ claims
\* a ResultEnvelope: { content, isError }
IsEnvelope(r) == "isError" \in DOMAIN r

\* a protocol-level error object: { error: { code, message } }
IsProtocolError(r) == "error" \in DOMAIN r

Content(c) == response[c].content

IsLogsItem(item) == item.type = "text" /\ item.text[1] = "Operation logs:\n"

ErrorEnvelope(c) == IsEnvelope(response[c]) /\ response[c].isError

\* what ensureStagehand did for the call: it threw, probed or constructed
EnsureInvoked(c) ==
    thrown[c] # NoError \/ probed[c] # NoHandle \/ created[c] # {}

\* C1: a call whose tool name is missing or not registered is answered with an
\* envelope whose isError is true, and ensureStagehand is not invoked for it.
C1_UnknownToolGetsErrorEnvelope ==
    \A c \in Calls :
        pc[c] = "done" /\ name[c] \notin ToolNames =>
            /\ ErrorEnvelope(c)
            /\ ~EnsureInvoked(c)

\* C2: the rejection of a call for its tool name leaves the OperationLog as
\* it was before the call.
C2_RejectionKeepsLog ==
    [][ \A c \in Calls :
          pc[c] = "idle" /\ pc'[c] = "done" /\ name'[c] \notin ToolNames =>
              operationLogs' = operationLogs ]_vars

\* C3: with calls that do not overlap, the operation log in the error
\* envelope of a call holds only lines appended after that call started.
C3_ErrorLogIsOfThisCall ==
    \A c \in Calls :
        ErrorEnvelope(c) =>
            \A i \in 1..Len(Content(c)) :
                IsLogsItem(Content(c)[i]) =>
                    \A j \in 1..Len(Content(c)[i].text[2]) :
                        Content(c)[i].text[2][j].call = c

\* the second call failed after the first had left lines in the log
C3_Witness ==
    \E c \in Calls :
        /\ pc[c] = "done"
        /\ ErrorEnvelope(c)
        /\ probed[c] # NoHandle
        /\ \E i \in 1..Len(Content(c)) :
              IsLogsItem(Content(c)[i]) /\ Len(Content(c)[i].text[2]) > 0

\* the messages of the invalidation class
InvalidationClass == { MsgClosed, MsgExpired, MsgDestroyed }

\* C4: with a stored handle and calls that do not overlap, ensureStagehand
\* returns the stored handle and constructs nothing when the probe succeeds;
\* when the probe fails with a message of the invalidation class it
\* constructs a new handle, stores it, and the handle it returns is that new
\* one, initialized and different from the one probed.
C4_ReuseOrReplace ==
    \A c \in Calls :
        probed[c] # NoHandle =>
            /\ pc[c] = "ensureResolved" /\ probeError[c] = NoError =>
                  /\ handle[c] = probed[c]
                  /\ stagehand = probed[c]
                  /\ created[c] = {}
            /\ probeError[c].message \in InvalidationClass =>
                  /\ created[c] # {}
                  /\ probed[c] \notin created[c]
                  /\ pc[c] = "awaitInit" => stagehand \in created[c]
                  /\ pc[c] = "ensureResolved" =>
                        /\ handle[c] \in created[c]
                        /\ handle[c] \in initialized
                        /\ handle[c] # probed[c]
                        /\ stagehand = handle[c]

C4_Witness ==
    \E c \in Calls :
        /\ pc[c] = "ensureResolved"
        /\ probeError[c].message \in InvalidationClass
        /\ probed[c] \in initialized
        /\ handle[c] # probed[c]

\* C5: when the probe fails with an error outside the invalidation class,
\* ensureStagehand rejects with that same error, constructs nothing and
\* leaves the stored handle as it was.
C5_OtherProbeErrorPropagates ==
    \A c \in Calls :
        /\ probed[c] # NoHandle
        /\ probeError[c] # NoError
        /\ probeError[c].message \notin InvalidationClass
        => /\ pc[c] \in { "ensureRejected", "done" }
           /\ thrown[c] = probeError[c]
           /\ created[c] = {}
           /\ stagehand = probed[c]

C5_Witness ==
    \E c \in Calls :
        /\ pc[c] = "ensureRejected"
        /\ probed[c] \in initialized
        /\ probeError[c] = Err(MsgTimeout)

\* C6: with the local target and no debug endpoint every ensureStagehand call
\* fails with the configuration error; no handle is ever constructed, probed
\* or initialized and the stored handle stays as it was.
C6_LocalWithoutEndpointFails ==
    stagehandConfig.env = "LOCAL" /\ stagehandConfig.cdpUrl = Undefined =>
        /\ stagehand = NoHandle
        /\ constructed = 0
        /\ initialized = {}
        /\ \A c \in Calls :
              /\ probed[c] = NoHandle
              /\ created[c] = {}
              /\ InFlight(c) => pc[c] = "ensureRejected" /\ thrown[c] = Err(MsgNoCdp)
              /\ pc[c] = "done" /\ name[c] \in ToolNames =>
                    /\ thrown[c] = Err(MsgNoCdp)
                    /\ ErrorEnvelope(c)
                    /\ Content(c)[1].text[2] = MsgNoCdp

C6_Witness ==
    /\ stagehandConfig.env = "LOCAL" /\ stagehandConfig.cdpUrl = Undefined
    /\ \E c \in Calls : pc[c] = "done" /\ thrown[c] = Err(MsgNoCdp)
    /\ \E c \in Calls : pc[c] = "delivered"

\* the call failed: in ensureStagehand or in the operation bound to the tool
Failed(c) == thrown[c] # NoError \/ opError[c] # NoError

\* C7: for a registered tool name, a failure of ensureStagehand or of the
\* bound operation is answered with one envelope whose isError is true, not
\* with a protocol-level error object.
C7_FailureGetsErrorEnvelope ==
    \A c \in Calls :
        /\ pc[c] # "done" => response[c] = NoResponse
        /\ pc[c] = "done" => response[c] # NoResponse
        /\ pc[c] = "done" /\ name[c] \in ToolNames /\ Failed(c) =>
              /\ ~IsProtocolError(response[c])
              /\ ErrorEnvelope(c)

C7_Witness ==
    \E c \in Calls :
        /\ pc[c] = "done"
        /\ name[c] = "stagehand_get_html"
        /\ opError[c] = Err(MsgEnospc)

\* C8: every envelope whose isError is true holds a text item describing the
\* failure and a text item carrying the OperationLog.
C8_ErrorEnvelopeCarriesLog ==
    \A c \in Calls :
        ErrorEnvelope(c) =>
            /\ Content(c)[1].type = "text"
            /\ \E i \in 1..Len(Content(c)) : IsLogsItem(Content(c)[i])

\* two configurations that differ at most in the values of the credentials
SameButCredentials(a, b) ==
    /\ a.env = b.env
    /\ a.projectId = b.projectId
    /\ a.cdpUrl = b.cdpUrl
    /\ Truthy(a.apiKey) <=> Truthy(b.apiKey)
    /\ Truthy(a.modelApiKey) <=> Truthy(b.modelApiKey)

\* C9: the envelope returned when ensureStagehand fails is the same for any
\* two configurations that differ only in the values of the credentials.
C9_EnsureFailureHidesCredentials ==
    \A c \in Calls :
        pc[c] = "done" /\ thrown[c] # NoError =>
            \A other \in Configs :
                SameButCredentials(stagehandConfig, other) =>
                    response[c] = EnsureFailure(thrown[c], other, Content(c)[2].text[2])

\* the path lies below the ArtifactDirectory
Inside(path) == StartsWith(path, TMP_DIR \o << "/" >>)

Outside(path) == ~Inside(path) /\ path # TMP_DIR /\ path # TMP_DIR \o << "/" >>

\* C10: the static server returns the content of a file only if the file
\* lies inside the ArtifactDirectory, and answers 403 to a request whose
\* resolved path is outside it.
C10_OnlyArtifactsServed ==
    /\ httpResponse.status = 200 /\ httpResponse.body[1] = "file" =>
          Inside(httpResponse.read)
    /\ StartsWith(httpRequest, UrlPrefix) =>
          LET resolved == PathJoin(TMP_DIR, ReplaceFirst(httpRequest, UrlPrefix, << >>))
          IN  Outside(resolved) => httpResponse.status = 403

\* C11: a request for exactly the prefix, as "/tmp/" and as "/tmp", is
\* answered 200 with the listing of the non-hidden files of the directory;
\* a request whose path does not start with the prefix is answered 404.
C11_PrefixListsOthersNotFound ==
    /\ httpRequest \in { << "/", "tmp", "/" >>, << "/", "tmp" >> } =>
          /\ httpResponse.status = 200
          /\ httpResponse.body = << "listing", Visible(Listing(files)) >>
    /\ /\ httpRequest # << >>
       /\ httpRequest # << "/", "tmp" >>
       /\ ~StartsWith(httpRequest, UrlPrefix)
       => httpResponse.status = 404

\* the entry of the ArtifactDirectory with that name, as the file system
\* holds it: its kind and, for a file, its content
Entry(fs, dirs, entryName) ==
    LET filePath == TMP_DIR \o << "/" >> \o entryName
    IN  IF filePath \in dirs THEN << "directory" >>
        ELSE IF filePath \in DOMAIN fs THEN << "file", fs[filePath] >>
        ELSE << "absent" >>

\* C12: after the startup of the static server the ArtifactDirectory exists,
\* holds no non-hidden entry that was there before, whatever its kind and
\* the order of the entries, and still holds every hidden entry.
C12_StartupPurges ==
    [][ httpServer.state = "stopped" /\ httpServer'.state # "stopped" =>
          /\ TMP_DIR \in directories'
          /\ \A entryName \in Readdir(files, directories, TMP_DIR) :
                IF StartsWith(entryName, << "." >>)
                THEN Entry(files', directories', entryName) =
                         Entry(files, directories, entryName)
                ELSE Entry(files', directories', entryName) = << "absent" >>
      ]_vars

\* C14: the port getHtml puts in its urls and the port startStaticHttpServer
\* returns are the port the static server listens on, whatever the override
\* is; the server comes to listen also when the configured port is in use.
C14_PortsAgree ==
    /\ httpServer.state # "failed"
    /\ httpServer.state = "listening" =>
          /\ httpServer.reported = httpServer.bound
          /\ ArtifactPort(httpPortEnv) = NumberToString(httpServer.bound)

\* the call returned a success envelope of getHtml
HtmlReturned(c) ==
    /\ pc[c] = "done"
    /\ name[c] = "stagehand_get_html"
    /\ IsEnvelope(response[c])
    /\ ~response[c].isError

\* the url in the envelope, and the file of the ArtifactDirectory it names
ArtifactUrl(c) == response[c].content[1].text[2]

ArtifactFile(c) ==
    TMP_DIR \o << "/" >> \o SubSeq(ArtifactUrl(c), 6, Len(ArtifactUrl(c)))

StartsLikeXPath(selector) ==
    \/ selector[1] = "/"
    \/ Len(selector) >= 2 /\ selector[1] = "." /\ selector[2] = "/"

\* C19: whenever the evaluation in the page returns, getHtml returns a
\* success envelope with the url of an artifact: the Not Found document of
\* the selector's kind when the selector matches no element, the diagnostic
\* string when its evaluation raises in the page.  The envelope has isError
\* true only when the evaluate call or the write of the file failed.
C19_GetHtmlDiagnostics ==
    \A c \in Calls :
        pc[c] = "done" /\ name[c] = "stagehand_get_html" /\ thrown[c] = NoError =>
            LET selector == evaluated[c][1]
                found == evaluated[c][2]
            IN  /\ response[c].isError <=> opError[c] # NoError
                /\ ~response[c].isError =>
                      /\ evaluated[c] # NotEvaluated
                      /\ Content(c)[1].text[1] = "HTML saved to: "
                      /\ ArtifactFile(c) \in DOMAIN files
                      /\ LET artifact == files[ArtifactFile(c)]
                         IN  IF selector = NoSelector
                             THEN artifact = << "document.documentElement.outerHTML" >>
                             ELSE IF found = "throws"
                             THEN artifact[1] = "Selector error: "
                             ELSE IF found = "element"
                             THEN artifact = << "element.outerHTML", selector >>
                             ELSE IF StartsLikeXPath(selector)
                             THEN artifact = XPathNotFound(selector)
                             ELSE artifact = CssNotFound(selector)

\* a "./" selector matched nothing and the call succeeded
C19_Witness ==
    \E c \in Calls :
        /\ HtmlReturned(c)
        /\ evaluated[c] = << << ".", "/", "p" >>, "none" >>
        /\ files[ArtifactFile(c)] = XPathNotFound(<< ".", "/", "p" >>)

\* a screenshot call whose capture succeeds returns in this step
ScreenshotSucceeds(c) ==
    /\ name[c] = "screenshot"
    /\ pc[c] = "awaitOp"
    /\ pc'[c] = "toolReturned"
    /\ ~result'[c].isError

\* C15: every successful screenshot call adds one entry to the
\* ScreenshotStore under a name no earlier entry has, and no entry is ever
\* overwritten or removed.
C15_ScreenshotAddsEntry ==
    [][ /\ \A k \in DOMAIN screenshots :
              k \in DOMAIN screenshots' /\ screenshots'[k] = screenshots[k]
        /\ \A c \in Calls :
              ScreenshotSucceeds(c) =>
                  Cardinality(DOMAIN screenshots') = Cardinality(DOMAIN screenshots) + 1
      ]_vars

HasImage(envelope) ==
    \E i \in 1..Len(envelope.content) : envelope.content[i].type = "image"

\* C16: an envelope holds an image item only if its isError is false, and
\* the ScreenshotStore changes and a notification is sent only in the step
\* in which a screenshot call succeeds.
C16_ImageOnlyOnSuccess ==
    [][ /\ \A c \in Calls :
              /\ IsEnvelope(result[c]) /\ HasImage(result[c]) => ~result[c].isError
              /\ IsEnvelope(response[c]) /\ HasImage(response[c]) => ~response[c].isError
        /\ screenshots' # screenshots \/ notifications' # notifications =>
              \E c \in Calls : ScreenshotSucceeds(c) /\ HasImage(result'[c])
      ]_vars

\* a screenshot call failed after another had succeeded
C16_Witness ==
    \E c \in Calls :
        /\ pc[c] = "done"
        /\ name[c] = "screenshot"
        /\ opError[c] # NoError
        /\ response[c].isError
        /\ Cardinality(DOMAIN screenshots) = 1
        /\ notifications = 1

\* C17: once a handle has been replaced by a newer one, no liveness probe
\* and no automation operation is invoked on it.  Handles are numbered in
\* the order of their construction and each is stored when constructed, so
\* the handles that have been replaced are those below `constructed`.
C17_NoUseAfterReplacement ==
    [][ \A c \in Calls :
          /\ probed'[c] # probed[c] /\ probed'[c] # NoHandle =>
                probed'[c] = constructed
          /\ pc[c] # "awaitOp" /\ pc'[c] = "awaitOp" =>
                handle[c] = constructed
      ]_vars

\* C18: ensureStagehand is not single-flight.  When the probes of two
\* overlapping calls on the same handle both fail with an error of the
\* invalidation class, each of the two calls has constructed a session of
\* its own: two new sessions for one invalidation.
C18_NotSingleFlight ==
    \A c1, c2 \in Calls :
        /\ c1 # c2
        /\ probed[c1] # NoHandle
        /\ probed[c1] = probed[c2]
        /\ probeError[c1].message \in InvalidationClass
        /\ probeError[c2].message \in InvalidationClass
        => /\ Cardinality(created[c1]) = 1
           /\ Cardinality(created[c2]) = 1
           /\ created[c1] \cap created[c2] = {}
           /\ constructed >= probed[c1] + 2

\* both probes of handle 1 failed with "Session expired" and both new
\* sessions have completed init()
C18_Witness ==
    \E c1, c2 \in Calls :
        /\ c1 # c2
        /\ probed[c1] = 1
        /\ probed[c2] = 1
        /\ probeError[c1] = Err(MsgExpired)
        /\ probeError[c2] = Err(MsgExpired)
        /\ created[c1] \cup created[c2] = { 2, 3 }
        /\ { 2, 3 } \subseteq initialized

\* a call of extract whose cleanup has run
ExtractReturned(c) ==
    /\ name[c] = "stagehand_extract"
    /\ evaluated[c] # NotEvaluated
    /\ evaluated[c][2] = "text"

\* the text after "Extracted content:\n" in the result of the call
ExtractedText(c) == result[c].content[1].text[2]

\* the four drop rules, as properties of a trimmed line
BothBraces(line) ==
    \E i, j \in 1..Len(line) : line[i] = "{" /\ line[j] = "}"

NamesKeyframes(line) ==
    \E i \in 1..Len(line) :
        /\ i + 9 <= Len(line)
        /\ \A k \in 1..10 : line[i + k - 1] = Keyframes[k]

StartsWithClassAndBrace(line) ==
    \E n, m \in 2..Len(line) :
        /\ n < m
        /\ line[1] = "."
        /\ \A i \in 2..n : line[i] \in ClassNameChars
        /\ \A i \in (n + 1)..(m - 1) : line[i] \in WhiteSpace
        /\ line[m] = "{"

IsDeclaration(line) ==
    \E k \in 2..(Len(line) - 2) :
        /\ \A i \in 1..(k - 1) : line[i] \in PropertyChars
        /\ line[k] = ":"
        /\ \A i \in (k + 1)..(Len(line) - 1) : line[i] \in ValueChars
        /\ line[Len(line)] = ";"

DropRule(line) ==
    \/ BothBraces(line)
    \/ NamesKeyframes(line)
    \/ StartsWithClassAndBrace(line)
    \/ IsDeclaration(line)

\* `text` is made of the trimmed and decoded forms of the lines with the
\* indexes `kept`, in their order, joined by line feeds
IsOutputOf(text, lines, kept) ==
    \E f \in [1..Cardinality(kept) -> kept] :
        /\ \A a, b \in 1..Cardinality(kept) : a < b => f[a] < f[b]
        /\ text = JoinLines([ j \in 1..Cardinality(kept) |-> Decode(Trim(lines[f[j]])) ])

\* C20, as stated: the output of extract is made of the trimmed and decoded
\* forms of precisely the lines that match none of the four drop rules, in
\* the original order; every other line is kept.
C20_KeepsEveryOtherLine ==
    \A c \in Calls :
        ExtractReturned(c) =>
            LET lines == SplitLines(evaluated[c][1])
            IN  IsOutputOf(ExtractedText(c), lines,
                           { i \in 1..Len(lines) : ~DropRule(Trim(lines[i])) })

\* C20, amended: the output of extract is made of the trimmed and decoded
\* forms of precisely the lines that are not empty once trimmed and match
\* none of the four drop rules, in the original order; the rules are applied
\* to the trimmed line before the escapes are decoded.
C20_KeepsEveryOtherNonEmptyLine ==
    \A c \in Calls :
        ExtractReturned(c) =>
            LET lines == SplitLines(evaluated[c][1])
            IN  IsOutputOf(ExtractedText(c), lines,
                           { i \in 1..Len(lines) :
                                /\ Trim(lines[i]) # << >>
                                /\ ~DropRule(Trim(lines[i])) })

\* extract returned for a text of a blank line and a line of escaped braces:
\* the blank line is gone and the braces, decoded, are there
C20_Witness ==
    \E c \in Calls :
        /\ ExtractReturned(c)
        /\ evaluated[c][1] =
              << " ", "\t", "\n",
                 "\\", "u", "0", "0", "7", "b", "x", "\\", "u", "0", "0", "7", "d" >>
        /\ ExtractedText(c) = << "{", "x", "}" >>

\* C21: the stored handle is one whose init() has succeeded.  When the
\* init() of a call has rejected and ensureStagehand has thrown, the handle
\* that call constructed is not the stored one, and the liveness probe of a
\* later call never runs on a handle whose init() did not resolve.
C21_FailedInitLeavesNoHandle ==
    [][ \A c \in Calls :
          /\ pc[c] = "awaitInit" /\ pc'[c] = "ensureRejected" =>
                stagehand' \notin created[c]
          /\ probed'[c] # probed[c] /\ probed'[c] # NoHandle =>
                probed'[c] \in initialized
      ]_vars

\* C22: with overlapping calls, a liveness probe runs only on a handle whose
\* init() has resolved, and the handle ensureStagehand resolves with for a
\* call is initialized and is the one that call constructed or probed, not
\* one another call has stored meanwhile.
C22_OnlyInitializedHandlesUsed ==
    [][ \A c \in Calls :
          /\ probed'[c] # probed[c] /\ probed'[c] # NoHandle =>
                probed'[c] \in initialized
          /\ handle'[c] # handle[c] /\ handle'[c] # NoHandle =>
                /\ handle'[c] \in initialized'
                /\ handle'[c] \in created[c] \cup { probed[c] }
      ]_vars

\* the first log is an initial part of the second: nothing was removed
IsPrefixOf(before, after) ==
    /\ Len(before) <= Len(after)
    /\ SubSeq(after, 1, Len(before)) = before

\* the call arrives in this step: its handler runs up to its first suspension
Arrives(c) == pc[c] = "idle" /\ pc'[c] # "idle"

\* C23, as stated: between the clear of a call and the return of its
\* envelope no entry of the OperationLog is removed, for every interleaving
\* of overlapping calls.
C23_AppendOnlyDuringCall ==
    [][ (\E c \in Calls : InFlight(c)) => IsPrefixOf(operationLogs, operationLogs') ]_vars

\* C23, amended: the log is cleared once per call, in the step in which the
\* call arrives and before ensureStagehand runs, so that what the log holds
\* after that step was appended by the arriving call; every other step
\* leaves the entries of the log in place.  Between the clear of a call and
\* the return of its envelope entries are removed only by the arrival of an
\* overlapping call.
C23_RemovedOnlyByArrivals ==
    [][ IF \E c \in Calls : Arrives(c)
        THEN \A c \in Calls :
                Arrives(c) =>
                    \A i \in 1..Len(operationLogs') : operationLogs'[i].call = c
        ELSE IsPrefixOf(operationLogs, operationLogs')
      ]_vars

\* two calls are in flight and the log holds a line of each
C23_Witness ==
    \E c1, c2 \in Calls :
        /\ c1 # c2
        /\ InFlight(c1)
        /\ InFlight(c2)
        /\ \E i, j \in 1..Len(operationLogs) :
              /\ i < j
              /\ operationLogs[i].call = c1
              /\ operationLogs[j].call = c2

\* C24: every call in flight comes to return a response, unless one of its
\* own awaited calls stays pending for ever; what the other calls do, or
\* never do, does not matter.  The response of a call is set once, when the
\* handler returns.
C24_EveryCallResponds ==
    /\ \A c \in Calls :
          \/ <>[]Awaiting(c)
          \/ InFlight(c) ~> pc[c] = "done"
    /\ [][ \A c \in Calls :
              response'[c] # response[c] =>
                  \/ pc[c] # "done" /\ pc'[c] = "done" /\ response[c] = NoResponse
                  \/ pc[c] = "done" /\ pc'[c] = "delivered"
         ]_vars

\* a call has its response while an earlier call still awaits its page
\* operation
C24_Witness ==
    \E c1, c2 \in Calls :
        /\ c1 < c2
        /\ pc[c1] = "awaitOp"
        /\ pc[c2] = "done"
        /\ response[c2] # NoResponse

====
